---- MODULE Spec2Model ----
(***************************************************************************)
(* Model of the transaction ledger in src/src/bank.rs (Bank, Client) and   *)
(* of the driver loop in src/src/main.rs (read_transactions).              *)
(*                                                                         *)
(* Balances are f32 in the source.  The model keeps f32 arithmetic on the  *)
(* integer-valued floats: a value is an integer, and every += / -= rounds  *)
(* its exact result to a 24-bit significand, ties to even, as IEEE-754     *)
(* binary32 does.  Exponent overflow is out of reach of the bounds.        *)
(***************************************************************************)
EXTENDS Integers, Sequences, FiniteSets, TLC

VARIABLES
    bank,      \* Bank.bank : HashMap<u16, Client>, a function on the present keys
    pc,        \* position of read_transactions: "reading", "done" or "failed"
    out,       \* the snapshot printed by read_transactions (a set of rows)
    nread,     \* number of records deserialized so far
    last,      \* the record handed to insert_txn by the latest step
    pre,       \* Bank.bank as it was before that record
    shadow,    \* Bank.bank of the companion run that omits one record
    skipped    \* whether the companion run has omitted its record yet

vars == <<bank, pc, out, nread, last, pre, shadow, skipped>>

----------------------------------------------------------------------------
(* Bounds of the model *)

\* length of the input stream
MaxRecords == 5

\* length of the input stream in the runs on amounts that tie when rounded
MaxRounding == 6

\* length of the input stream in the runs checked for termination
MaxStream == 5

\* the client and tx columns of the input rows (u16 and u32 in the source)
ClientIds == {1, 2}
TxIds == {1, 2}

----------------------------------------------------------------------------
(* f32 *)

MantissaBits == 24

RECURSIVE Pow2(_)
Pow2(k) == IF k = 0 THEN 1 ELSE 2 * Pow2(k - 1)

\* the spacing of binary32 values around the magnitude m >= 0
RECURSIVE Ulp(_)
Ulp(m) == IF m < Pow2(MantissaBits) THEN 1 ELSE 2 * Ulp(m \div 2)

\* round-to-nearest, ties-to-even, of the magnitude m >= 0
RoundMagnitude(m) ==
    LET u  == Ulp(m)
        lo == (m \div u) * u
        r  == m - lo
    IN  IF 2 * r < u THEN lo
        ELSE IF 2 * r > u THEN lo + u
        ELSE IF (lo \div u) % 2 = 0 THEN lo ELSE lo + u

F32(n) == IF n < 0 THEN 0 - RoundMagnitude(0 - n) ELSE RoundMagnitude(n)

F32Add(a, b) == F32(a + b)
F32Sub(a, b) == F32(a - b)

\* amounts a record can carry: empty/zero, a unit, and a value whose
\* neighbourhood has spacing 2
Amounts == {0, 1, Pow2(MantissaBits) + 2}

----------------------------------------------------------------------------
(* Transaction, TransactionType *)

TransactionType == {"Withdrawal", "Deposit", "Dispute", "Resolve", "Chargeback"}

Transaction(ty, c, tx, amt) ==
    [tx_type |-> ty, client |-> c, tx |-> tx, amount |-> amt]

\* the records the reader can deliver; the amount column is empty (0.0) on
\* dispute, resolve and chargeback rows
Records ==
    { Transaction(ty, c, tx, amt) :
        ty \in {"Withdrawal", "Deposit"}, c \in ClientIds, tx \in TxIds, amt \in Amounts }
    \cup
    { Transaction(ty, c, tx, 0) :
        ty \in {"Dispute", "Resolve", "Chargeback"}, c \in ClientIds, tx \in TxIds }

NoRecord == [tx_type |-> "None", client |-> 0, tx |-> 0, amount |-> 0]

----------------------------------------------------------------------------
(* HashMap *)

EmptyMap == [k \in {} |-> k]

contains_key(m, k) == k \in DOMAIN m

\* HashMap::insert: the value under k is replaced when k is present
insert(m, k, v) == [x \in DOMAIN m \cup {k} |-> IF x = k THEN v ELSE m[x]]

remove(m, k) == [x \in DOMAIN m \ {k} |-> m[x]]

----------------------------------------------------------------------------
(* Client *)

Client_new(c) ==
    [client |-> c, txns |-> EmptyMap, available |-> 0, held |-> 0,
     locked |-> FALSE, disputes |-> EmptyMap]

\* variant: the duplicate check is missing
withdrawal_overwrite(cl, txn) ==
    IF txn.amount # 0
    THEN [cl EXCEPT !.available = F32Sub(@, txn.amount),
                    !.txns = insert(@, txn.tx, txn)]
    ELSE cl

\* variant: a withdrawal that would overdraw the account is refused
withdrawal_covered(cl, txn) ==
    IF ~contains_key(cl.txns, txn.tx) /\ txn.amount # 0 /\ cl.available >= txn.amount
    THEN [cl EXCEPT !.available = F32Sub(@, txn.amount),
                    !.txns = insert(@, txn.tx, txn)]
    ELSE cl

withdrawal(cl, txn) ==
    IF ~contains_key(cl.txns, txn.tx) /\ txn.amount # 0
    THEN [cl EXCEPT !.available = F32Sub(@, txn.amount),
                    !.txns = insert(@, txn.tx, txn)]
    ELSE cl

\* variant: the duplicate check is missing
deposit_overwrite(cl, txn) ==
    IF txn.amount # 0
    THEN [cl EXCEPT !.available = F32Add(@, txn.amount),
                    !.txns = insert(@, txn.tx, txn)]
    ELSE cl

\* variant: the amount is not tested against 0.0
deposit_zero_stored(cl, txn) ==
    IF ~contains_key(cl.txns, txn.tx)
    THEN [cl EXCEPT !.available = F32Add(@, txn.amount),
                    !.txns = insert(@, txn.tx, txn)]
    ELSE cl

deposit(cl, txn) ==
    IF ~contains_key(cl.txns, txn.tx) /\ txn.amount # 0
    THEN [cl EXCEPT !.available = F32Add(@, txn.amount),
                    !.txns = insert(@, txn.tx, txn)]
    ELSE cl

\* variant: the kind of the stored record is not looked at
dispute_any_kind(cl, tx) ==
    IF contains_key(cl.txns, tx)
    THEN LET txn == cl.txns[tx]
         IN  [cl EXCEPT !.available = F32Sub(@, txn.amount),
                        !.held = F32Add(@, txn.amount),
                        !.disputes = insert(@, tx, txn)]
    ELSE cl

\* variant: a tx with an open dispute cannot be disputed again
dispute_once(cl, tx) ==
    IF contains_key(cl.txns, tx) /\ ~contains_key(cl.disputes, tx)
    THEN LET txn == cl.txns[tx]
         IN  IF txn.tx_type = "Deposit"
             THEN [cl EXCEPT !.available = F32Sub(@, txn.amount),
                             !.held = F32Add(@, txn.amount),
                             !.disputes = insert(@, tx, txn)]
             ELSE cl
    ELSE cl

dispute(cl, tx) ==
    IF contains_key(cl.txns, tx)
    THEN LET txn == cl.txns[tx]
         IN  IF txn.tx_type = "Deposit"
             THEN [cl EXCEPT !.available = F32Sub(@, txn.amount),
                             !.held = F32Add(@, txn.amount),
                             !.disputes = insert(@, tx, txn)]
             ELSE cl
    ELSE cl

\* variant: the dispute stays open (get instead of remove)
resolve_keep(cl, tx) ==
    IF contains_key(cl.disputes, tx)
    THEN LET txn == cl.disputes[tx]
         IN  [cl EXCEPT !.available = F32Add(@, txn.amount),
                        !.held = F32Sub(@, txn.amount)]
    ELSE cl

\* variant: the resolved record is dropped from the history as well
resolve_forget(cl, tx) ==
    IF contains_key(cl.disputes, tx)
    THEN LET txn == cl.disputes[tx]
         IN  [cl EXCEPT !.disputes = remove(@, tx),
                        !.txns = remove(@, tx),
                        !.available = F32Add(@, txn.amount),
                        !.held = F32Sub(@, txn.amount)]
    ELSE cl

\* variant: the held amount is not released
resolve_no_release(cl, tx) ==
    IF contains_key(cl.disputes, tx)
    THEN LET txn == cl.disputes[tx]
         IN  [cl EXCEPT !.disputes = remove(@, tx),
                        !.available = F32Add(@, txn.amount)]
    ELSE cl

resolve(cl, tx) ==
    IF contains_key(cl.disputes, tx)
    THEN LET txn == cl.disputes[tx]
         IN  [cl EXCEPT !.disputes = remove(@, tx),
                        !.available = F32Add(@, txn.amount),
                        !.held = F32Sub(@, txn.amount)]
    ELSE cl

\* variant: the account is not frozen
chargeback_no_lock(cl, tx) ==
    IF contains_key(cl.disputes, tx)
    THEN LET txn == cl.disputes[tx]
         IN  [cl EXCEPT !.disputes = remove(@, tx),
                        !.held = F32Sub(@, txn.amount)]
    ELSE cl

\* variant: the account is frozen by any Chargeback record
chargeback_always_lock(cl, tx) ==
    IF contains_key(cl.disputes, tx)
    THEN LET txn == cl.disputes[tx]
         IN  [cl EXCEPT !.disputes = remove(@, tx),
                        !.held = F32Sub(@, txn.amount),
                        !.locked = TRUE]
    ELSE [cl EXCEPT !.locked = TRUE]

chargeback(cl, tx) ==
    IF contains_key(cl.disputes, tx)
    THEN LET txn == cl.disputes[tx]
         IN  [cl EXCEPT !.disputes = remove(@, tx),
                        !.held = F32Sub(@, txn.amount),
                        !.locked = TRUE]
    ELSE cl

\* variant: the locked flag is not consulted
process_txn_unguarded(cl, txn) ==
    CASE txn.tx_type = "Withdrawal" -> withdrawal(cl, txn)
      [] txn.tx_type = "Deposit"    -> deposit(cl, txn)
      [] txn.tx_type = "Dispute"    -> dispute(cl, txn.tx)
      [] txn.tx_type = "Resolve"    -> resolve(cl, txn.tx)
      [] txn.tx_type = "Chargeback" -> chargeback(cl, txn.tx)

process_txn(cl, txn) ==
    IF ~cl.locked
    THEN CASE txn.tx_type = "Withdrawal" -> withdrawal(cl, txn)
           [] txn.tx_type = "Deposit"    -> deposit(cl, txn)
           [] txn.tx_type = "Dispute"    -> dispute(cl, txn.tx)
           [] txn.tx_type = "Resolve"    -> resolve(cl, txn.tx)
           [] txn.tx_type = "Chargeback" -> chargeback(cl, txn.tx)
    ELSE cl

\* "{:.4}" of an integer-valued f32: sign, integer digits, four fractional digits
Fmt4(x) == [neg |-> x < 0, int |-> IF x < 0 THEN 0 - x ELSE x, frac |-> <<0, 0, 0, 0>>]

Client_to_string(cl) ==
    <<cl.client, Fmt4(cl.available), Fmt4(cl.held),
      Fmt4(F32Add(cl.available, cl.held)), cl.locked>>

----------------------------------------------------------------------------
(* Bank *)

Bank_new == EmptyMap

add_client(b, client_id) ==
    IF ~contains_key(b, client_id)
    THEN insert(b, client_id, Client_new(client_id))
    ELSE b

\* variant: an account is opened by a record of any kind
insert_txn_any_kind(b, txn) ==
    LET b1 == add_client(b, txn.client)
    IN  [b1 EXCEPT ![txn.client] = process_txn(@, txn)]

\* variant: the record is handed to every account, not only the addressed one
insert_txn_broadcast(b, txn) ==
    LET b1 == IF ~contains_key(b, txn.client) /\ txn.tx_type = "Deposit"
              THEN add_client(b, txn.client)
              ELSE b
    IN  IF contains_key(b1, txn.client)
        THEN [c \in DOMAIN b1 |-> process_txn(b1[c], txn)]
        ELSE b1

insert_txn(b, txn) ==
    LET b1 == IF ~contains_key(b, txn.client) /\ txn.tx_type = "Deposit"
              THEN add_client(b, txn.client)
              ELSE b
    IN  IF contains_key(b1, txn.client)
        THEN [b1 EXCEPT ![txn.client] = process_txn(@, txn)]
        ELSE b1

\* the rows of the snapshot; the HashMap's key order is arbitrary
Bank_to_string(b) == { Client_to_string(b[c]) : c \in DOMAIN b }

----------------------------------------------------------------------------
(* read_transactions *)

Init ==
    /\ bank = Bank_new
    /\ pc = "reading"
    /\ out = {}
    /\ nread = 0
    /\ last = NoRecord
    /\ pre = Bank_new
    /\ shadow = Bank_new
    /\ skipped = FALSE

\* one iteration of the loop: a well-formed record, one of `rows`, goes to
\* insert_txn; `len` is the length of the longest stream
ReadFrom(rows, len) ==
    /\ pc = "reading"
    /\ nread < len
    /\ \E txn \in rows :
          /\ bank' = insert_txn(bank, txn)
          /\ shadow' = insert_txn(shadow, txn)
          /\ last' = txn
    /\ pre' = bank
    /\ nread' = nread + 1
    /\ UNCHANGED <<pc, out, skipped>>

ReadRecord == ReadFrom(Records, MaxRecords)

\* `result?` on a malformed row: the function returns Err, nothing is printed
ReadError ==
    /\ pc = "reading"
    /\ nread < MaxRecords
    /\ pc' = "failed"
    /\ UNCHANGED <<bank, out, nread, last, pre, shadow, skipped>>

\* variant: the snapshot is taken one record early
PrintSnapshot_stale ==
    /\ pc = "reading"
    /\ out' = Bank_to_string(pre)
    /\ pc' = "done"
    /\ UNCHANGED <<bank, nread, last, pre, shadow, skipped>>

\* end of the stream: the snapshot is printed
PrintSnapshot ==
    /\ pc = "reading"
    /\ out' = Bank_to_string(bank)
    /\ pc' = "done"
    /\ UNCHANGED <<bank, nread, last, pre, shadow, skipped>>

Next == ReadRecord \/ ReadError \/ PrintSnapshot

Spec == Init /\ [][Next]_vars

\* a stream whose rows all deserialize, here rows of one client with amounts
\* that add without rounding.  The stream is finite and nothing in the loop
\* blocks, so once the iterator is exhausted the println! is reached
StreamRecords == { r \in Records : r.client = 1 /\ r.amount \in {0, 1} }

ReadStreamRecord == ReadFrom(StreamRecords, MaxStream)

NextStream == ReadStreamRecord \/ PrintSnapshot

SpecStream == Init /\ [][NextStream]_vars /\ WF_vars(PrintSnapshot)

\* streams of one client whose amounts are 1 and 2^24: their sum lies halfway
\* between two binary32 values and rounds to the even one, 2^24
RoundingRecords ==
    { Transaction(ty, 1, tx, amt) :
        ty \in {"Withdrawal", "Deposit"}, tx \in TxIds, amt \in {1, Pow2(MantissaBits)} }
    \cup
    { Transaction(ty, 1, tx, 0) :
        ty \in {"Dispute", "Resolve", "Chargeback"}, tx \in TxIds }

ReadRoundingRecord == ReadFrom(RoundingRecords, MaxRounding)

NextRounding == ReadRoundingRecord \/ ReadError \/ PrintSnapshot

SpecRounding == Init /\ [][NextRounding]_vars

----------------------------------------------------------------------------
(* Two runs of read_transactions side by side: `bank` reads the whole       *)
(* stream, `shadow` reads the stream with one record deleted, a record that *)
(* falls in one of the classes of silently discarded records.               *)

DiscardClass(b, txn) ==
    IF txn.client \notin DOMAIN b
    THEN txn.tx_type # "Deposit" \/ txn.amount = 0
    ELSE LET cl == b[txn.client]
         IN  IF cl.locked THEN TRUE
             ELSE IF txn.tx_type \in {"Deposit", "Withdrawal"}
                  THEN txn.amount = 0 \/ txn.tx \in DOMAIN cl.txns
             ELSE IF txn.tx_type = "Dispute"
                  THEN IF txn.tx \in DOMAIN cl.txns
                       THEN cl.txns[txn.tx].tx_type # "Deposit"
                       ELSE TRUE
             ELSE txn.tx \notin DOMAIN cl.disputes

\* the record is in the full stream only
ReadOmitted ==
    /\ pc = "reading"
    /\ nread < MaxRecords
    /\ ~skipped
    /\ \E txn \in Records :
          /\ DiscardClass(bank, txn)
          /\ bank' = insert_txn(bank, txn)
          /\ last' = txn
    /\ pre' = bank
    /\ nread' = nread + 1
    /\ skipped' = TRUE
    /\ UNCHANGED <<pc, out, shadow>>

NextDel == ReadRecord \/ ReadOmitted \/ ReadError \/ PrintSnapshot

SpecDel == Init /\ [][NextDel]_vars

----------------------------------------------------------------------------
(* Vocabulary of the properties *)

\* the step hands a record of kind ty to insert_txn
Routes(ty) == nread' = nread + 1 /\ last'.tx_type = ty

\* the latest record was of kind ty, addressed to an account that existed
LastOn(ty) == last.tx_type = ty /\ last.client \in DOMAIN pre

----------------------------------------------------------------------------
(* C1 *)

\* C1: locked is a one-way latch: once an account is locked it stays locked,
\* and no record of any kind changes its available, held, txns or disputes.
C1_LockedLatch ==
    [][\A c \in DOMAIN bank :
          bank[c].locked => c \in DOMAIN bank' /\ bank'[c] = bank[c]]_vars

\* a fresh non-zero Deposit was routed to an account that was already locked
C1_Witness ==
    /\ LastOn("Deposit")
    /\ pre[last.client].locked
    /\ last.amount # 0
    /\ last.tx \notin DOMAIN pre[last.client].txns
    /\ bank[last.client].locked

----------------------------------------------------------------------------
(* C2 *)

HasAcceptedDeposit(c) ==
    /\ c \in DOMAIN bank
    /\ \E tx \in DOMAIN bank[c].txns : bank[c].txns[tx].tx_type = "Deposit"

\* C2: an account exists for a client if and only if a Deposit for that
\* client is stored in the account's accepted history (txns).
C2_AccountIffAcceptedDeposit ==
    \A c \in ClientIds : (c \in DOMAIN bank) <=> HasAcceptedDeposit(c)

----------------------------------------------------------------------------
(* C3 *)

NonDeposit == {"Withdrawal", "Dispute", "Resolve", "Chargeback"}

\* C3: a Withdrawal, Dispute, Resolve or Chargeback for a client without an
\* account changes nothing in the ledger; an account only ever appears in a
\* step that routes a Deposit for that client, and such a step always leaves
\* the client with an account; the snapshot has rows for accounts only.
C3_NoAccountWithoutDeposit ==
    [][/\ \A ty \in NonDeposit :
             Routes(ty) /\ last'.client \notin DOMAIN bank => bank' = bank
       /\ \A c \in ClientIds :
             c \notin DOMAIN bank /\ c \in DOMAIN bank'
                => Routes("Deposit") /\ last'.client = c
       /\ Routes("Deposit") => last'.client \in DOMAIN bank'
       /\ pc' = "done" => { row[1] : row \in out' } = DOMAIN bank'
      ]_vars

\* a non-zero Withdrawal was routed to a client without an account, another
\* client has one, and the snapshot was printed without a row for the former
C3_Witness ==
    /\ last.tx_type = "Withdrawal"
    /\ last.amount # 0
    /\ last.client \notin DOMAIN pre
    /\ last.client \notin DOMAIN bank
    /\ DOMAIN bank # {}
    /\ pc = "done"
    /\ \A row \in out : row[1] # last.client

----------------------------------------------------------------------------
(* C4 *)

\* C4: a Deposit or Withdrawal whose tx is already a key of the client's txns
\* (stored by a Deposit or by a Withdrawal) changes nothing: balances, locked,
\* disputes and the stored record stay as they are.
C4_DuplicateRejected ==
    [][\A ty \in {"Deposit", "Withdrawal"} :
          ( /\ Routes(ty)
            /\ last'.client \in DOMAIN bank
            /\ last'.tx \in DOMAIN bank[last'.client].txns )
          => bank' = bank]_vars

\* on an active account a non-zero Deposit re-used the tx of a stored
\* Withdrawal of a different amount
C4_Witness ==
    /\ LastOn("Deposit")
    /\ ~pre[last.client].locked
    /\ last.amount # 0
    /\ last.tx \in DOMAIN pre[last.client].txns
    /\ pre[last.client].txns[last.tx].tx_type = "Withdrawal"
    /\ pre[last.client].txns[last.tx].amount # last.amount
    /\ bank = pre

----------------------------------------------------------------------------
(* C5 *)

\* C5: deleting one record of a discard class from the stream yields the same
\* final ledger and the same snapshot as the full stream.
C5_DiscardedLeavesNoTrace ==
    (pc = "done" /\ skipped) => (bank = shadow /\ out = Bank_to_string(shadow))

----------------------------------------------------------------------------
(* C6 *)

\* C6: every tx in an account's disputes is a key of its txns, the record
\* stored there is a Deposit, and the record in disputes equals it.
C6_DisputesAreAcceptedDeposits ==
    \A c \in DOMAIN bank :
        \A tx \in DOMAIN bank[c].disputes :
            /\ tx \in DOMAIN bank[c].txns
            /\ bank[c].txns[tx].tx_type = "Deposit"
            /\ bank[c].disputes[tx] = bank[c].txns[tx]

\* a dispute is open while a Dispute of a stored Withdrawal has just been routed
C6_Witness ==
    /\ LastOn("Dispute")
    /\ ~pre[last.client].locked
    /\ last.tx \in DOMAIN pre[last.client].txns
    /\ pre[last.client].txns[last.tx].tx_type = "Withdrawal"
    /\ DOMAIN bank[last.client].disputes # {}

----------------------------------------------------------------------------
(* C7 *)

\* the latest record was a Dispute of a stored Deposit with no open dispute,
\* on an active account
DisputeOpened ==
    /\ LastOn("Dispute")
    /\ ~pre[last.client].locked
    /\ last.tx \in DOMAIN pre[last.client].txns
    /\ pre[last.client].txns[last.tx].tx_type = "Deposit"
    /\ last.tx \notin DOMAIN pre[last.client].disputes

\* C7: Dispute(tx) immediately followed by Resolve(tx), for a stored Deposit
\* with no open dispute on an active account, restores available, held and
\* disputes to exactly their values before the Dispute.
C7_DisputeResolveRoundTrip ==
    [][( /\ DisputeOpened
         /\ Routes("Resolve")
         /\ last'.client = last.client
         /\ last'.tx = last.tx )
       => /\ bank'[last.client].available = pre[last.client].available
          /\ bank'[last.client].held = pre[last.client].held
          /\ bank'[last.client].disputes = pre[last.client].disputes]_vars

----------------------------------------------------------------------------
(* C8 *)

\* C8: Chargeback(tx) on an active account with tx in disputes does
\* held -= amount of the disputed deposit, leaves available and txns alone,
\* removes tx from disputes and sets locked; from the state Deposit(tx,a),
\* Dispute(tx) leave on a fresh client (available 0, held a) it ends with
\* available = 0, held = 0, locked; a Deposit routed next changes nothing.
C8_ChargebackEffect ==
    [][/\ ( /\ Routes("Chargeback")
            /\ last'.client \in DOMAIN bank
            /\ ~bank[last'.client].locked
            /\ last'.tx \in DOMAIN bank[last'.client].disputes )
          => LET cl  == bank[last'.client]
                 cl2 == bank'[last'.client]
                 amt == cl.txns[last'.tx].amount
             IN  /\ cl2.held = F32Sub(cl.held, amt)
                 /\ cl2.available = cl.available
                 /\ cl2.txns = cl.txns
                 /\ cl2.disputes = remove(cl.disputes, last'.tx)
                 /\ cl2.locked
                 /\ ( /\ DOMAIN cl.txns = {last'.tx}
                      /\ cl.available = 0
                      /\ cl.held = amt )
                    => cl2.available = 0 /\ cl2.held = 0
       /\ ( /\ LastOn("Chargeback")
            /\ bank[last.client].locked
            /\ Routes("Deposit")
            /\ last'.client = last.client )
          => bank' = bank
      ]_vars

\* Deposit(tx,a), Dispute(tx), Chargeback(tx) on a fresh client were followed
\* by a fresh non-zero Deposit
C8_Witness ==
    /\ LastOn("Deposit")
    /\ last.amount # 0
    /\ LET cl == bank[last.client]
       IN  /\ cl.locked
           /\ Cardinality(DOMAIN cl.txns) = 1
           /\ last.tx \notin DOMAIN cl.txns
           /\ cl.available = 0
           /\ cl.held = 0
           /\ cl.disputes = EmptyMap

----------------------------------------------------------------------------
(* C9 *)

\* C9: a Resolve(tx) applied to an active account leaves tx out of disputes;
\* Resolve(tx) with tx not in disputes changes nothing, so a second
\* Resolve(tx) right after the first changes nothing either.
C9_ResolveIdempotent ==
    [][/\ ( /\ Routes("Resolve")
            /\ last'.client \in DOMAIN bank
            /\ ~bank[last'.client].locked )
          => last'.tx \notin DOMAIN bank'[last'.client].disputes
       /\ ( /\ Routes("Resolve")
            /\ last'.client \in DOMAIN bank
            /\ last'.tx \notin DOMAIN bank[last'.client].disputes )
          => bank' = bank
       /\ ( /\ LastOn("Resolve")
            /\ ~pre[last.client].locked
            /\ Routes("Resolve")
            /\ last'.client = last.client
            /\ last'.tx = last.tx )
          => bank' = bank
      ]_vars

\* a second Resolve(tx) followed a Resolve(tx) that closed a dispute opened by
\* more than one Dispute(tx): held is still positive with no dispute open
C9_Witness ==
    /\ LastOn("Resolve")
    /\ ~pre[last.client].locked
    /\ last.tx \in DOMAIN pre[last.client].txns
    /\ pre[last.client].disputes = EmptyMap
    /\ pre[last.client].held > 0
    /\ bank = pre

----------------------------------------------------------------------------
(* C10 *)

\* C10: Dispute(tx) changes nothing when tx is not a key of the addressed
\* client's own txns (even if another client stored it) or when the record
\* stored under tx is a Withdrawal.
C10_DisputeRejected ==
    [][( /\ Routes("Dispute")
         /\ last'.client \in DOMAIN bank
         /\ \/ last'.tx \notin DOMAIN bank[last'.client].txns
            \/ bank[last'.client].txns[last'.tx].tx_type = "Withdrawal" )
       => bank' = bank]_vars

\* a Dispute named a tx that only another client has stored, as a Deposit
C10_Witness ==
    /\ LastOn("Dispute")
    /\ ~pre[last.client].locked
    /\ last.tx \notin DOMAIN pre[last.client].txns
    /\ \E c \in DOMAIN pre :
          /\ c # last.client
          /\ last.tx \in DOMAIN pre[c].txns
          /\ pre[c].txns[last.tx].tx_type = "Deposit"
    /\ bank = pre

----------------------------------------------------------------------------
(* C11 *)

\* C11: no balance check.  On an active account a Withdrawal with a fresh tx
\* and a non-zero amount is always applied (available -= amount, stored in
\* txns), whatever available and held are; a Dispute of a stored Deposit is
\* always applied (available -= amount, held += amount, tx in disputes), also
\* when available is smaller than the amount.
C11_NoBalanceCheck ==
    [][/\ ( /\ Routes("Withdrawal")
            /\ last'.amount # 0
            /\ last'.client \in DOMAIN bank
            /\ ~bank[last'.client].locked
            /\ last'.tx \notin DOMAIN bank[last'.client].txns )
          => LET cl  == bank[last'.client]
                 cl2 == bank'[last'.client]
             IN  /\ cl2.available = F32Sub(cl.available, last'.amount)
                 /\ last'.tx \in DOMAIN cl2.txns
                 /\ cl2.txns[last'.tx] = last'
                 /\ cl2.held = cl.held
       /\ ( /\ Routes("Dispute")
            /\ last'.client \in DOMAIN bank
            /\ ~bank[last'.client].locked
            /\ last'.tx \in DOMAIN bank[last'.client].txns
            /\ bank[last'.client].txns[last'.tx].tx_type = "Deposit" )
          => LET cl  == bank[last'.client]
                 cl2 == bank'[last'.client]
                 amt == cl.txns[last'.tx].amount
             IN  /\ cl2.available = F32Sub(cl.available, amt)
                 /\ cl2.held = F32Add(cl.held, amt)
                 /\ last'.tx \in DOMAIN cl2.disputes
      ]_vars

\* a Withdrawal larger than available was applied and left available below
\* zero while a dispute was open (held above zero)
C11_Witness ==
    /\ LastOn("Withdrawal")
    /\ ~pre[last.client].locked
    /\ last.amount > pre[last.client].available
    /\ pre[last.client].held > 0
    /\ last.tx \in DOMAIN bank[last.client].txns
    /\ bank[last.client].txns[last.tx] = last
    /\ bank[last.client].available < 0

----------------------------------------------------------------------------
(* C12 *)

\* C12: per-client isolation.  A record routed for client c leaves the
\* existence and the whole account of every other client unchanged, and a
\* fresh non-zero Deposit is stored for its client whether or not another
\* client has stored the same tx.
C12_ClientIsolation ==
    [][/\ \A c \in ClientIds :
             (nread' = nread + 1 /\ c # last'.client)
             => /\ (c \in DOMAIN bank') <=> (c \in DOMAIN bank)
                /\ c \in DOMAIN bank => bank'[c] = bank[c]
       /\ ( /\ Routes("Deposit")
            /\ last'.amount # 0
            /\ last'.client \in DOMAIN bank
            /\ ~bank[last'.client].locked
            /\ last'.tx \notin DOMAIN bank[last'.client].txns )
          => /\ last'.tx \in DOMAIN bank'[last'.client].txns
             /\ bank'[last'.client].txns[last'.tx] = last'
      ]_vars

\* a Deposit was stored for one client under a tx that another client had
\* already stored, and the other client's account is as it was
C12_Witness ==
    /\ LastOn("Deposit")
    /\ last.tx \notin DOMAIN pre[last.client].txns
    /\ last.tx \in DOMAIN bank[last.client].txns
    /\ \E c \in DOMAIN pre :
          /\ c # last.client
          /\ last.tx \in DOMAIN pre[c].txns
          /\ ~pre[c].locked
          /\ bank[c] = pre[c]

----------------------------------------------------------------------------
(* C13 *)

\* the latest record was a zero-amount Deposit or Withdrawal with a fresh tx
\* on an existing active account
ZeroAmountRouted ==
    /\ last.tx_type \in {"Deposit", "Withdrawal"}
    /\ last.amount = 0
    /\ last.client \in DOMAIN pre
    /\ ~pre[last.client].locked
    /\ last.tx \notin DOMAIN pre[last.client].txns

\* C13: a Deposit or Withdrawal with amount 0 changes nothing on an existing
\* account and its tx is not stored; right after it a non-zero Deposit or
\* Withdrawal with the same tx is still accepted, and a Dispute of that tx is
\* rejected.
C13_ZeroAmountRejected ==
    [][/\ \A ty \in {"Deposit", "Withdrawal"} :
             ( /\ Routes(ty)
               /\ last'.amount = 0
               /\ last'.client \in DOMAIN bank )
             => bank' = bank
       /\ \A ty \in {"Deposit", "Withdrawal"} :
             ( /\ ZeroAmountRouted
               /\ Routes(ty)
               /\ last'.client = last.client
               /\ last'.tx = last.tx
               /\ last'.amount # 0 )
             => /\ last'.tx \in DOMAIN bank'[last.client].txns
                /\ bank'[last.client].txns[last'.tx] = last'
                /\ bank'[last.client].available =
                      IF ty = "Deposit"
                      THEN F32Add(pre[last.client].available, last'.amount)
                      ELSE F32Sub(pre[last.client].available, last'.amount)
       /\ ( /\ ZeroAmountRouted
            /\ Routes("Dispute")
            /\ last'.client = last.client
            /\ last'.tx = last.tx )
          => bank' = bank /\ bank = pre
      ]_vars

\* a zero-amount Deposit with a fresh tx reached an active account that holds
\* funds, and left it as it was
C13_Witness ==
    /\ ZeroAmountRouted
    /\ last.tx_type = "Deposit"
    /\ pre[last.client].available # 0
    /\ last.tx \notin DOMAIN bank[last.client].txns
    /\ bank = pre

----------------------------------------------------------------------------
(* C14 *)

\* C14: a Dispute(tx) with tx already in disputes is applied again
\* (available -= amount, held += amount) and disputes keeps its single entry
\* for tx; a Resolve(tx) routed next gives back one amount only
\* (available += amount, held -= amount) and removes tx from disputes.
C14_RepeatedDispute ==
    [][/\ ( /\ Routes("Dispute")
            /\ last'.client \in DOMAIN bank
            /\ ~bank[last'.client].locked
            /\ last'.tx \in DOMAIN bank[last'.client].disputes )
          => LET cl  == bank[last'.client]
                 cl2 == bank'[last'.client]
                 amt == cl.disputes[last'.tx].amount
             IN  /\ cl2.available = F32Sub(cl.available, amt)
                 /\ cl2.held = F32Add(cl.held, amt)
                 /\ cl2.disputes = cl.disputes
       /\ ( /\ LastOn("Dispute")
            /\ ~pre[last.client].locked
            /\ last.tx \in DOMAIN pre[last.client].disputes
            /\ Routes("Resolve")
            /\ last'.client = last.client
            /\ last'.tx = last.tx )
          => LET cl  == bank[last.client]
                 cl2 == bank'[last.client]
                 amt == cl.disputes[last.tx].amount
             IN  /\ cl2.available = F32Add(cl.available, amt)
                 /\ cl2.held = F32Sub(cl.held, amt)
                 /\ last.tx \notin DOMAIN cl2.disputes
      ]_vars

\* one Resolve closed a dispute that had been opened twice: held went from
\* twice the amount to once the amount and no dispute is open
C14_Witness ==
    /\ LastOn("Resolve")
    /\ ~pre[last.client].locked
    /\ DOMAIN pre[last.client].disputes = {last.tx}
    /\ pre[last.client].disputes[last.tx].amount = 1
    /\ pre[last.client].held = 2
    /\ bank[last.client].held = 1
    /\ bank[last.client].disputes = EmptyMap

----------------------------------------------------------------------------
(* C15 *)

\* every record in txns is a Deposit or Withdrawal of this client, under its tx
OnlyDepositsAndWithdrawalsStored ==
    \A c \in DOMAIN bank :
        \A tx \in DOMAIN bank[c].txns :
            /\ bank[c].txns[tx].tx_type \in {"Deposit", "Withdrawal"}
            /\ bank[c].txns[tx].tx = tx
            /\ bank[c].txns[tx].client = c

\* C15: txns is append-only and holds only Deposit/Withdrawal records: a
\* stored record is never changed or removed, Dispute, Resolve and Chargeback
\* leave txns as it is, and a Deposit whose dispute was resolved can be
\* disputed again.
C15_AcceptedAppendOnly ==
    /\ []OnlyDepositsAndWithdrawalsStored
    /\ [][/\ \A c \in DOMAIN bank :
                /\ c \in DOMAIN bank'
                /\ \A tx \in DOMAIN bank[c].txns :
                      /\ tx \in DOMAIN bank'[c].txns
                      /\ bank'[c].txns[tx] = bank[c].txns[tx]
          /\ \A ty \in {"Dispute", "Resolve", "Chargeback"} :
                (Routes(ty) /\ last'.client \in DOMAIN bank)
                => bank'[last'.client].txns = bank[last'.client].txns
          /\ ( /\ LastOn("Resolve")
               /\ ~pre[last.client].locked
               /\ last.tx \in DOMAIN pre[last.client].disputes
               /\ Routes("Dispute")
               /\ last'.client = last.client
               /\ last'.tx = last.tx )
             => /\ last.tx \notin DOMAIN bank[last.client].disputes
                /\ last.tx \in DOMAIN bank'[last.client].disputes
         ]_vars

\* a Deposit was disputed again after its dispute had been closed by a
\* Resolve (held still positive from an earlier repeated Dispute)
C15_Witness ==
    /\ LastOn("Dispute")
    /\ ~pre[last.client].locked
    /\ DOMAIN pre[last.client].txns = {last.tx}
    /\ pre[last.client].disputes = EmptyMap
    /\ pre[last.client].held > 0
    /\ last.tx \in DOMAIN bank[last.client].disputes
    /\ bank[last.client].txns = pre[last.client].txns

----------------------------------------------------------------------------
(* C16 *)

----------------------------------------------------------------------------
(* C17 *)

RECURSIVE SumAmounts(_)
\* the exact sum of the amounts of the records of a map
SumAmounts(m) ==
    IF DOMAIN m = {} THEN 0
    ELSE LET k == CHOOSE x \in DOMAIN m : TRUE
         IN  m[k].amount + SumAmounts(remove(m, k))

----------------------------------------------------------------------------
(* C18 *)

RECURSIVE SumOfKind(_, _)
\* the exact sum of the amounts of the records of kind ty in a map
SumOfKind(m, ty) ==
    IF DOMAIN m = {} THEN 0
    ELSE LET k == CHOOSE x \in DOMAIN m : TRUE
         IN  (IF m[k].tx_type = ty THEN m[k].amount ELSE 0)
             + SumOfKind(remove(m, k), ty)

NetAccepted(cl) == SumOfKind(cl.txns, "Deposit") - SumOfKind(cl.txns, "Withdrawal")

\* C18: conservation of funds.  available + held equals the sum of the stored
\* Deposit amounts minus the sum of the stored Withdrawal amounts, minus the
\* amount of the charged-back Deposit if the account is locked; Dispute and
\* Resolve never change available + held; a locked account is never charged
\* back again.
C18_Conservation ==
    /\ [](\A c \in DOMAIN bank :
            LET cl == bank[c]
            IN  IF cl.locked
                THEN \E tx \in DOMAIN cl.txns :
                        /\ cl.txns[tx].tx_type = "Deposit"
                        /\ cl.available + cl.held = NetAccepted(cl) - cl.txns[tx].amount
                ELSE cl.available + cl.held = NetAccepted(cl))
    /\ [][/\ \A ty \in {"Dispute", "Resolve"} :
                (Routes(ty) /\ last'.client \in DOMAIN bank)
                => bank'[last'.client].available + bank'[last'.client].held
                      = bank[last'.client].available + bank[last'.client].held
          /\ ( /\ Routes("Chargeback")
               /\ last'.client \in DOMAIN bank
               /\ bank[last'.client].locked )
             => bank' = bank
         ]_vars

----------------------------------------------------------------------------
(* C19 *)

\* C19: with non-negative amounts in the input, held is never negative, in
\* any account, after any sequence of records (repeated Disputes included).
C19_HeldNeverNegative ==
    \A c \in DOMAIN bank : bank[c].held >= 0

----------------------------------------------------------------------------
(* C20 *)

\* C20: an account becomes locked exactly in the steps that route a
\* Chargeback for it naming a tx that is in its disputes at that moment: a
\* new account is not locked, a Chargeback on an active account with tx in
\* disputes locks it, a Chargeback naming a tx with no open dispute changes
\* nothing, and no other record sets locked.
C20_LockedIffChargeback ==
    [][/\ \A c \in ClientIds :
             (c \notin DOMAIN bank /\ c \in DOMAIN bank') => ~bank'[c].locked
       /\ \A c \in DOMAIN bank :
             (~bank[c].locked /\ bank'[c].locked)
             <=> ( /\ Routes("Chargeback")
                   /\ last'.client = c
                   /\ ~bank[c].locked
                   /\ last'.tx \in DOMAIN bank[c].disputes )
       /\ ( /\ Routes("Chargeback")
            /\ last'.client \in DOMAIN bank
            /\ last'.tx \notin DOMAIN bank[last'.client].disputes )
          => bank' = bank
      ]_vars

\* a Chargeback named a stored Deposit that has no open dispute, while
\* another dispute was open, and the account stayed active and unchanged
C20_Witness ==
    /\ LastOn("Chargeback")
    /\ ~pre[last.client].locked
    /\ last.tx \in DOMAIN pre[last.client].txns
    /\ pre[last.client].txns[last.tx].tx_type = "Deposit"
    /\ last.tx \notin DOMAIN pre[last.client].disputes
    /\ DOMAIN pre[last.client].disputes # {}
    /\ ~bank[last.client].locked
    /\ bank = pre

====
